---- MODULE Spec2Model ----
(***************************************************************************)
(* gpdf: grep-style search over PDF documents (src/gpdf.py).               *)
(*                                                                         *)
(* Five specifications live in this module:                                *)
(*   Spec          one run of main(): compile, collect, resolve, scan      *)
(*                 loop, merged PDF, HTML index, reports index, copies     *)
(*   SpecCtx       _extract_context applied to bounded page texts          *)
(*   SpecReports   _write_html_index / _build_reports_index over a         *)
(*                 reports directory                                       *)
(*   SpecRoundTrip one pattern written by _write_html_index and recovered  *)
(*                 by _build_reports_index                                 *)
(*   SpecNaming    _next_available_output on a target directory            *)
(*                                                                         *)
(* Strings that the code inspects character by character (page text, the   *)
(* search pattern, HTML) are sequences of one-character strings.  Paths    *)
(* are TLA+ strings; os.path functions are tabulated on the finite set of  *)
(* paths the model uses.                                                   *)
(***************************************************************************)
EXTENDS Integers, Sequences, FiniteSets, TLC

VARIABLES
    args,                   \* argparse namespace of the run
    fs,                     \* the file system the run observes
    pc,                     \* position of main()
    exit_code,              \* {} until main returns, then {code}
    paths,                  \* main's local `paths`
    out,                    \* resolved html_path, merge_path, output_dir, prefixes
    idx,                    \* position of the `for path in paths` loop
    all_records,            \* main's all_records
    matched_pages_by_file,  \* main's dict, in insertion order
    summary_pages,          \* page map returned by _build_merged_pdf
    handles,                \* fitz documents currently open
    opens,                  \* number of fitz.open calls that succeeded
    scanLog,                \* one entry per iteration of the scan loop
    mergeLog,               \* one entry per source _build_merged_pdf opened
    dirs,                   \* directories created by the run
    written,                \* paths of the files written by the run
    composite,              \* the merged PDF as saved
    html_index,             \* the HTML index as written
    reports_index,          \* rows of index.html as written
    stderr,                 \* diagnostics
    stdout,                 \* announcements
    ctx,                    \* SpecCtx: input and result of _extract_context
    rep                     \* SpecReports, SpecRoundTrip: directory and index

mainVars == <<args, fs, pc, exit_code, paths, out, idx, all_records,
              matched_pages_by_file, summary_pages, handles, opens, scanLog,
              mergeLog, dirs, written, composite, html_index, reports_index,
              stderr, stdout>>

vars == <<mainVars, ctx, rep>>

----------------------------------------------------------------------------
(* Bounds of the model *)

MaxArgs == 2        \* number of path arguments on the command line
MaxPages == 2       \* pages of a document
MaxText == 4        \* characters of a page text given to _extract_context
MaxWindow == 2      \* context window given to _extract_context
MaxPat == 2         \* characters of a search pattern before its padding

NONE == "<none>"    \* Python's None for optional strings

----------------------------------------------------------------------------
(* Generic helpers *)

Range(s) == {s[i] : i \in 1..Len(s)}

RECURSIVE SeqsUpTo(_, _)
SeqsUpTo(S, n) ==
    IF n = 0 THEN {<<>>}
    ELSE LET shorter == SeqsUpTo(S, n - 1)
         IN shorter \cup {Append(s, x) : s \in shorter, x \in S}

RECURSIVE SortedSeqDesc(_)
\* sorted(set(xs), reverse=True)
SortedSeqDesc(S) ==
    IF S = {} THEN <<>>
    ELSE LET m == CHOOSE x \in S : \A y \in S : x >= y
         IN <<m>> \o SortedSeqDesc(S \ {m})

RECURSIVE SortedSeq(_)
\* sorted(set(xs)) for a set of integers
SortedSeq(S) ==
    IF S = {} THEN <<>>
    ELSE LET m == CHOOSE x \in S : \A y \in S : x <= y
         IN <<m>> \o SortedSeq(S \ {m})

----------------------------------------------------------------------------
(* Paths and the file system                                               *)
(*                                                                         *)
(* The working directory is /cwd.  It always holds notes.txt and the       *)
(* directory docs; a.pdf and docs/c.pdf are present or absent, and         *)
(* _gpdf_results/out.pdf does not exist when the run starts.               *)

ArgPathChoices == {"a.pdf", "docs", "notes.txt", "_gpdf_results/out.pdf"}

CwdListings == {<<"notes.txt">>, <<"a.pdf", "notes.txt">>}
DocsListings == {<<"readme.md">>, <<"c.pdf", "readme.md">>}

\* os.path.join
Join(dir, name) == dir \o "/" \o name

\* os.path.abspath with os.getcwd() = /cwd
AbsPath(p) ==
    CASE p \in {"/cwd", "/cwd/a.pdf", "/cwd/notes.txt"} -> p
      [] OTHER -> "/cwd/" \o p

KnownDirs ==
    {".", "/cwd", "docs", "/cwd/docs", "_gpdf_results", "gpdf_report/html",
     "gpdf_report/source", "gpdf_report/summaries"}

KnownNames ==
    {"a.pdf", "c.pdf", "out.pdf", "gone.pdf", "notes.txt", "readme.md",
     "gpdf-2024-01-01-001.pdf", "gpdf-2024-01-01-001.html"}

\* os.path.basename: the part after the last separator
JoinedPaths == {d \o "/" \o n : d \in KnownDirs, n \in KnownNames}

BaseNameOf ==
    [p \in JoinedPaths |-> CHOOSE n \in KnownNames : \E d \in KnownDirs : p = d \o "/" \o n]

BaseName(p) == IF p \in JoinedPaths THEN BaseNameOf[p] ELSE p

\* name.lower().endswith(".pdf")
EndsWithPdf(p) ==
    BaseName(p) \in {"a.pdf", "c.pdf", "out.pdf", "gone.pdf", "gpdf-2024-01-01-001.pdf"}

Files(f) ==
    {Join("/cwd", f.cwd[i]) : i \in 1..Len(f.cwd)}
        \cup {Join("/cwd/docs", f.docs[i]) : i \in 1..Len(f.docs)}

IsDir(f, p) == AbsPath(p) \in {"/cwd", "/cwd/docs"}
IsFile(f, p) == AbsPath(p) \in Files(f)
Exists(f, p) == IsDir(f, p) \/ IsFile(f, p)

\* os.listdir
ListDir(f, p) ==
    CASE AbsPath(p) = "/cwd" -> f.cwd
      [] AbsPath(p) = "/cwd/docs" -> f.docs
      [] OTHER -> <<>>

\* [join(dir, name) for name in listdir(dir) if pdf name and isfile]
PdfsIn(f, dir) ==
    LET names == ListDir(f, dir)
        full == [i \in 1..Len(names) |-> Join(dir, names[i])]
        Keep(q) == EndsWithPdf(q) /\ IsFile(f, q)
    IN SelectSeq(full, Keep)

_default_pdf_paths(f, cwd) == PdfsIn(f, cwd)

RECURSIVE _collect_paths(_, _)
_collect_paths(f, args_paths) ==
    IF args_paths = <<>> THEN <<>>
    ELSE LET path == Head(args_paths)
             here == IF IsDir(f, path) THEN PdfsIn(f, path) ELSE <<path>>
         IN here \o _collect_paths(f, Tail(args_paths))

\* _collect_paths that keeps only the paths that exist
CollectPathsDropMissing(f, args_paths) ==
    IF args_paths = <<>> THEN _default_pdf_paths(f, "/cwd")
    ELSE SelectSeq(_collect_paths(f, args_paths), LAMBDA q : Exists(f, q))

CollectPaths(f, args_paths) ==
    IF args_paths = <<>> THEN _default_pdf_paths(f, "/cwd")
    ELSE _collect_paths(f, args_paths)

----------------------------------------------------------------------------
(* Output naming *)

ProbeLimit == 1000      \* range(1, 1000)

Digit == <<"0", "1", "2", "3", "4", "5", "6", "7", "8", "9">>

\* f"{i:03d}"
Pad3(i) ==
    IF i < 1000
    THEN Digit[(i \div 100) + 1] \o Digit[((i \div 10) % 10) + 1] \o Digit[(i % 10) + 1]
    ELSE Digit[(i \div 1000) + 1] \o Digit[((i \div 100) % 10) + 1]
             \o Digit[((i \div 10) % 10) + 1] \o Digit[(i % 10) + 1]

\* datetime.now().strftime("%Y-%m-%d") on the day of the run
DateStamp == "2024-01-01"

AutoName(i, ext) == "gpdf-" \o DateStamp \o "-" \o Pad3(i) \o "." \o ext

RECURSIVE ProbeIn(_, _, _, _, _)
\* the `for i in range(lo, hi)` loop: the first i whose path does not exist,
\* 0 when the loop ends without one; the range is walked in two halves, the
\* second only when the first ends without a free name
ProbeIn(existing, base_dir, ext, lo, hi) ==
    IF lo >= hi THEN 0
    ELSE IF hi = lo + 1
    THEN IF AbsPath(Join(base_dir, AutoName(lo, ext))) \notin existing THEN lo ELSE 0
    ELSE LET mid == (lo + hi) \div 2
             first == ProbeIn(existing, base_dir, ext, lo, mid)
         IN IF first # 0 THEN first ELSE ProbeIn(existing, base_dir, ext, mid, hi)

\* the loop from i on, and the raise after it
Probe(existing, base_dir, ext, i) ==
    LET n == ProbeIn(existing, base_dir, ext, i, ProbeLimit)
    IN IF n = 0 THEN "RuntimeError" ELSE Join(base_dir, AutoName(n, ext))

\* the number of the new name is the number of names present plus one
_next_available_output_CountPlusOne(existing, base_dir, ext) ==
    Join(base_dir, AutoName(Cardinality(existing) + 1, ext))

\* existing: the absolute paths for which os.path.exists is true
_next_available_output(existing, base_dir, ext) == Probe(existing, base_dir, ext, 1)

_resolve_output_path(existing, requested, output_dir, ext) ==
    IF requested = NONE THEN NONE
    ELSE LET base_dir == IF output_dir # NONE THEN output_dir ELSE "/cwd"
         IN IF requested = "" THEN _next_available_output(existing, base_dir, ext)
            ELSE IF output_dir # NONE THEN Join(output_dir, BaseName(requested))
            ELSE requested

----------------------------------------------------------------------------
(* Context extraction                                                      *)
(*                                                                         *)
(* A text is a sequence of characters, one element per character; offsets *)
(* and the window count characters, as in the code.                        *)

CtxChars == {"a", " ", "\n"}

ESC == "ESC"    \* the character \x1b
NUL == "NUL"    \* the character \x00

\* "\x1b[31m" and "\x1b[0m"
ANSI_RED == <<ESC, "[", "3", "1", "m">>
ANSI_RESET == <<ESC, "[", "0", "m">>
\* "\x00GPDF_START\x00" and "\x00GPDF_END\x00"
SENTINEL_START == <<NUL>> \o <<"G", "P", "D", "F", "_", "S", "T", "A", "R", "T">> \o <<NUL>>
SENTINEL_END == <<NUL>> \o <<"G", "P", "D", "F", "_", "E", "N", "D">> \o <<NUL>>

\* the strings _normalize_with_ansi gives a meaning to, the begin sentinel
\* without its first character and the begin code without its last one; a
\* page text may hold any of them, as get_text returns whatever the
\* document holds
CtxReserved ==
    {ANSI_RED, ANSI_RESET, SENTINEL_START, SENTINEL_END,
     SubSeq(SENTINEL_START, 2, Len(SENTINEL_START)),
     SubSeq(ANSI_RED, 1, Len(ANSI_RED) - 1)}

\* \s
IsSpace(c) == c \in {" ", "\n", "\t", "\r"}

RECURSIVE CollapseSpace(_)
\* re.sub(r"\s+", " ", text)
CollapseSpace(text) ==
    IF text = <<>> THEN <<>>
    ELSE IF IsSpace(Head(text))
    THEN IF Len(text) > 1 /\ IsSpace(text[2]) THEN CollapseSpace(Tail(text))
         ELSE <<" ">> \o CollapseSpace(Tail(text))
    ELSE <<Head(text)>> \o CollapseSpace(Tail(text))

\* text.strip()
Strip(text) ==
    LET keep == {i \in 1..Len(text) : ~IsSpace(text[i])}
    IN IF keep = {} THEN <<>>
       ELSE SubSeq(text, CHOOSE i \in keep : \A j \in keep : i <= j,
                         CHOOSE i \in keep : \A j \in keep : j <= i)

_normalize_context(text) == Strip(CollapseSpace(text))

RECURSIVE Replace(_, _, _)
\* text.replace(old, new), old not empty: the occurrences of old are taken
\* from the left and do not overlap
Replace(text, old, new) ==
    IF Len(text) < Len(old) THEN text
    ELSE IF text[1] = old[1] /\ SubSeq(text, 1, Len(old)) = old
    THEN new \o Replace(SubSeq(text, Len(old) + 1, Len(text)), old, new)
    ELSE <<Head(text)>> \o Replace(Tail(text), old, new)

_normalize_with_ansi(text) ==
    LET marked == Replace(Replace(text, ANSI_RED, SENTINEL_START), ANSI_RESET, SENTINEL_END)
        normal == _normalize_context(marked)
    IN Replace(Replace(normal, SENTINEL_START, ANSI_RED), SENTINEL_END, ANSI_RESET)

Min(a, b) == IF a < b THEN a ELSE b
Max(a, b) == IF a > b THEN a ELSE b

\* text[i:j] with 0 <= i <= j <= len(text)
Slice(text, i, j) == SubSeq(text, i + 1, j)

\* the snippet is normalised first and the markers are put at the offsets of
\* the raw snippet
_extract_context_MarkAfter(text, start, end, window) ==
    LET left == Max(0, start - window)
        right == Min(Len(text), end + window)
        snippet == _normalize_context(Slice(text, left, right))
        local_start == Min(start - left, Len(snippet))
        local_end == Min(end - left, Len(snippet))
    IN Slice(snippet, 0, local_start) \o ANSI_RED
         \o Slice(snippet, local_start, local_end) \o ANSI_RESET
         \o Slice(snippet, local_end, Len(snippet))

_extract_context(text, start, end, window) ==
    LET left == Max(0, start - window)
        right == Min(Len(text), end + window)
        snippet == Slice(text, left, right)
        local_start == start - left
        local_end == end - left
        colored == Slice(snippet, 0, local_start) \o ANSI_RED
                     \o Slice(snippet, local_start, local_end) \o ANSI_RESET
                     \o Slice(snippet, local_end, Len(snippet))
    IN _normalize_with_ansi(colored)

----------------------------------------------------------------------------
(* Scanner                                                                 *)
(*                                                                         *)
(* A document is the sequence of its pages; a page is the number of        *)
(* non-overlapping matches pattern.finditer finds in its text (0 for a     *)
(* page without text or without a match).                                  *)

PageChoices == {0, 1, 2}

DocChoices == SeqsUpTo(PageChoices, MaxPages)

\* docs/c.pdf is a short document
ShortDocChoices == {d \in DocChoices : Len(d) <= 1}

ContextWindow == 120    \* args.context, default=120

RECURSIVE PageText(_)
\* page.get_text("text") of a page with n matches of the pattern a: empty
\* for n = 0, else n letters a separated by single spaces
PageText(n) ==
    IF n = 0 THEN <<>>
    ELSE IF n = 1 THEN <<"a">>
    ELSE PageText(n - 1) \o <<" ", "a">>

\* match.start() and match.end() of the k-th match finditer yields
MatchStart(k) == 2 * (k - 1)
MatchEnd(k) == 2 * (k - 1) + 1

\* _extract_context(text, match.start(), match.end(), args.context) of the
\* k-th match on a page with n matches, tabulated over the pages of the model
PageContext ==
    [n \in PageChoices |->
        [k \in 1..n |-> _extract_context(PageText(n), MatchStart(k), MatchEnd(k),
                                         ContextWindow)]]

\* the record of the k-th match on a page with n matches
MatchRecord(path, page_index, page_count, n, k) ==
    [source_path |-> path, page_number |-> page_index + 1,
     page_count |-> page_count, match |-> k,
     context |-> PageContext[n][k]]

RECURSIVE ScanPages(_, _, _, _)
\* the `for page_index in range(page_count)` loop, from page_index on
ScanPages(path, doc, page_index, acc) ==
    IF page_index >= Len(doc) THEN acc
    ELSE LET n == doc[page_index + 1]
             found == [k \in 1..n |-> MatchRecord(path, page_index, Len(doc), n, k)]
         IN ScanPages(path, doc, page_index + 1,
                [matches |-> acc.matches \o found,
                 matched_pages |-> IF n > 0 THEN Append(acc.matched_pages, page_index)
                                   ELSE acc.matched_pages])

\* opened = FALSE: fitz.open raised
_scan_pdf(path, opened, doc) ==
    IF ~opened THEN [matches |-> <<>>, matched_pages |-> <<>>]
    ELSE ScanPages(path, doc, 0, [matches |-> <<>>, matched_pages |-> <<>>])

----------------------------------------------------------------------------
(* Python dicts *)

\* d[k] = v on a dict keyed by tuples, kept as a function
DictSet(d, k, v) == [x \in (DOMAIN d) \cup {k} |-> IF x = k THEN v ELSE d[x]]

HasKey(items, k) == \E i \in 1..Len(items) : items[i].path = k

\* a list of pairs instead of a dict: a path scanned twice is kept twice
DictAssignAppend(items, k, v) == Append(items, [path |-> k, pages |-> v])

\* matched_pages_by_file[path] = pages, the dict kept in insertion order
DictAssign(items, k, v) ==
    IF HasKey(items, k)
    THEN [i \in 1..Len(items) |->
            IF items[i].path = k THEN [path |-> k, pages |-> v] ELSE items[i]]
    ELSE Append(items, [path |-> k, pages |-> v])

----------------------------------------------------------------------------
(* Merged document assembler *)

CopiedPage(src_path, page_index) ==
    [kind |-> "copy", source_path |-> src_path, source_page |-> page_index + 1,
     label |-> <<BaseName(src_path), page_index + 1>>,
     uri |-> <<AbsPath(src_path), page_index + 1>>,
     lines |-> <<>>]

EmptyMerge ==
    [merged |-> <<>>, toc |-> <<>>, entries |-> <<>>, page_map |-> <<>>,
     log |-> <<>>, raised |-> FALSE, open |-> {}]

RECURSIVE CopyPages(_, _, _)
\* the `for page_index in page_indexes` loop of one source
CopyPages(src_path, page_indexes, st) ==
    IF page_indexes = <<>> THEN st
    ELSE LET page_index == Head(page_indexes)
             merged_page_number == Len(st.merged) + 1
         IN CopyPages(src_path, Tail(page_indexes),
                [st EXCEPT
                   !.merged = Append(@, CopiedPage(src_path, page_index)),
                   !.toc = Append(@, [level |-> 1, source_path |-> src_path,
                                      source_page |-> page_index + 1,
                                      page |-> merged_page_number]),
                   !.entries = Append(@, [source_path |-> src_path,
                                          source_page |-> page_index + 1,
                                          merged_page_index |-> merged_page_number - 1]),
                   !.page_map = DictSet(@, <<src_path, page_index + 1>>,
                                        merged_page_number)])

RECURSIVE MergeFiles(_, _, _, _)
\* the `for src_path, page_indexes in matched_pages_by_file.items()` loop.
\* failing: the sources whose fitz.open raises; raiseIn: the source whose
\* first insert_pdf raises (NONE: none does)
MergeFiles(items, failing, raiseIn, st) ==
    IF items = <<>> THEN st
    ELSE LET src_path == Head(items).path
             page_indexes == Head(items).pages
         IN IF page_indexes = <<>>
            THEN MergeFiles(Tail(items), failing, raiseIn, st)
            ELSE IF src_path \in failing
            THEN MergeFiles(Tail(items), failing, raiseIn,
                    [st EXCEPT !.log = Append(@, [path |-> src_path, opened |-> FALSE,
                                                  copied |-> 0])])
            ELSE IF src_path = raiseIn
            THEN [st EXCEPT !.raised = TRUE, !.open = {"merged", src_path},
                            !.log = Append(@, [path |-> src_path, opened |-> TRUE,
                                               copied |-> 0])]
            ELSE MergeFiles(Tail(items), failing, raiseIn,
                    CopyPages(src_path, page_indexes,
                        [st EXCEPT !.log = Append(@, [path |-> src_path, opened |-> TRUE,
                                                      copied |-> Len(page_indexes)])]))

\* the internal jumps keep the positions the pages had before the contents
\* page was inserted
ContentsPage_Unshifted(entries) ==
    [kind |-> "contents", source_path |-> NONE, source_page |-> 0,
     label |-> <<>>, uri |-> <<>>,
     lines |-> [i \in 1..Len(entries) |->
                  [source_path |-> entries[i].source_path,
                   source_page |-> entries[i].source_page,
                   target_index |-> entries[i].merged_page_index,
                   source_uri |-> <<AbsPath(entries[i].source_path),
                                    entries[i].source_page>>]]]

ContentsPage(entries) ==
    [kind |-> "contents", source_path |-> NONE, source_page |-> 0,
     label |-> <<>>, uri |-> <<>>,
     lines |-> [i \in 1..Len(entries) |->
                  [source_path |-> entries[i].source_path,
                   source_page |-> entries[i].source_page,
                   target_index |-> entries[i].merged_page_index + 1,
                   source_uri |-> <<AbsPath(entries[i].source_path),
                                    entries[i].source_page>>]]]

\* the assembler without the contents page
_build_merged_pdf_NoContents(items, failing, raiseIn) ==
    LET st == MergeFiles(items, failing, raiseIn, EmptyMerge)
    IN [raised |-> st.raised,
        saved |-> ~st.raised /\ Len(st.merged) > 0,
        pages |-> IF st.raised THEN <<>> ELSE st.merged,
        toc |-> IF st.raised THEN <<>> ELSE st.toc,
        entries |-> st.entries,
        page_map |-> st.page_map,
        log |-> st.log,
        open |-> st.open]

\* What one call leaves behind: the composite as saved (saved = FALSE: no
\* file written), the returned page map, the handles left open.
_build_merged_pdf(items, failing, raiseIn) ==
    LET st == MergeFiles(items, failing, raiseIn, EmptyMerge)
        withContents == Len(st.merged) > 0 /\ st.entries # <<>>
        pages == IF withContents THEN <<ContentsPage(st.entries)>> \o st.merged
                 ELSE st.merged
        toc == IF withContents
               THEN [i \in 1..Len(st.toc) |-> [st.toc[i] EXCEPT !.page = @ + 1]]
               ELSE st.toc
    IN [raised |-> st.raised,
        saved |-> ~st.raised /\ Len(st.merged) > 0,
        pages |-> IF st.raised THEN <<>> ELSE pages,
        toc |-> IF st.raised THEN <<>> ELSE toc,
        entries |-> st.entries,
        page_map |-> st.page_map,
        log |-> st.log,
        open |-> st.open]

----------------------------------------------------------------------------
(* Text                                                                    *)
(*                                                                         *)
(* A text is [chars, pad]: the characters chars followed by pad copies of  *)
(* the letter a, so that a long pattern needs no long sequence.            *)

ReadLimit == 4096       \* handle.read(4096)
HeadLen == 66           \* the document up to the metadata element
MetaOpenLen == 35       \* <meta name="gpdf-pattern" content="
TailLen == 2019         \* the fixed markup after the metadata element

Txt(chars, pad) == [chars |-> chars, pad |-> pad]

RECURSIVE StripAs(_)
StripAs(cs) ==
    IF cs # <<>> /\ cs[Len(cs)] = "a" THEN StripAs(SubSeq(cs, 1, Len(cs) - 1)) ELSE cs

\* one representative per text: no trailing a is kept in chars
Canon(t) ==
    LET kept == StripAs(t.chars)
    IN Txt(kept, t.pad + (Len(t.chars) - Len(kept)))

RECURSIVE Flatten(_)
Flatten(ss) == IF ss = <<>> THEN <<>> ELSE Head(ss) \o Flatten(Tail(ss))

EscapeChar(c) ==
    CASE c = "&" -> <<"&", "a", "m", "p", ";">>
      [] c = "<" -> <<"&", "l", "t", ";">>
      [] c = ">" -> <<"&", "g", "t", ";">>
      [] c = "\"" -> <<"&", "q", "u", "o", "t", ";">>
      [] c = "'" -> <<"&", "#", "x", "2", "7", ";">>
      [] OTHER -> <<c>>

\* html.escape(text) with quote=True
html_escape(t) ==
    Txt(Flatten([i \in 1..Len(t.chars) |-> EscapeChar(t.chars[i])]), t.pad)

\* [^\t\n\f <&#;]
IsNameChar(c) == c \notin {"\t", "\n", " ", "<", "&", "#", ";"}

RECURSIVE NameLen(_, _)
\* length of the longest run of name characters at the head of cs, at most 32
NameLen(cs, n) ==
    IF n < 32 /\ Len(cs) > n /\ IsNameChar(cs[n + 1]) THEN NameLen(cs, n + 1) ELSE n

\* the named character references a text over the model's alphabet can hold
EntityTable ==
    {<< <<"a", "m", "p", ";">>, "&" >>, << <<"a", "m", "p">>, "&" >>,
     << <<"l", "t", ";">>, "<" >>, << <<"l", "t">>, "<" >>,
     << <<"g", "t", ";">>, ">" >>, << <<"g", "t">>, ">" >>,
     << <<"q", "u", "o", "t", ";">>, "\"" >>, << <<"q", "u", "o", "t">>, "\"" >>}

IsEntity(s) == \E e \in EntityTable : e[1] = s
EntityChar(s) == (CHOOSE e \in EntityTable : e[1] = s)[2]

\* the longest x, 2 <= x <= Len(s) - 1, with s[:x] an entity; 0 if none
RECURSIVE EntityPrefix(_, _)
EntityPrefix(s, x) ==
    IF x < 2 THEN 0
    ELSE IF IsEntity(SubSeq(s, 1, x)) THEN x
    ELSE EntityPrefix(s, x - 1)

RECURSIVE UnescapeChars(_)
\* html.unescape on a sequence of characters (no numeric references occur)
UnescapeChars(cs) ==
    IF cs = <<>> THEN <<>>
    ELSE IF Head(cs) # "&" THEN <<Head(cs)>> \o UnescapeChars(Tail(cs))
    ELSE LET rest == Tail(cs)
             n == NameLen(rest, 0)
             semi == n > 0 /\ Len(rest) > n /\ rest[n + 1] = ";"
             m == IF semi THEN n + 1 ELSE n
             s == SubSeq(rest, 1, m)
             after == SubSeq(rest, m + 1, Len(rest))
             x == EntityPrefix(s, m - 1)
         IN IF n = 0 THEN <<"&">> \o UnescapeChars(rest)
            ELSE IF IsEntity(s) THEN <<EntityChar(s)>> \o UnescapeChars(after)
            ELSE IF x > 0
            THEN <<EntityChar(SubSeq(s, 1, x))>> \o SubSeq(s, x + 1, m)
                     \o UnescapeChars(after)
            ELSE <<"&">> \o s \o UnescapeChars(after)

\* html.unescape(text): a character reference takes at most 33 characters,
\* so 33 letters of the padding are enough to decide every reference
html_unescape(t) ==
    LET k == IF t.pad < 33 THEN t.pad ELSE 33
    IN Txt(UnescapeChars(t.chars \o [i \in 1..k |-> "a"]), t.pad - k)

----------------------------------------------------------------------------
(* HTML index rows *)

\* "__GPDF_BOLD_START__" and "__GPDF_BOLD_END__"
BOLD_START == <<"_", "_", "G", "P", "D", "F", "_", "B", "O", "L", "D", "_", "S", "T", "A", "R", "T", "_", "_">>
BOLD_END == <<"_", "_", "G", "P", "D", "F", "_", "B", "O", "L", "D", "_", "E", "N", "D", "_", "_">>

\* lines 42-47: the context as HTML, one element per character
_ansi_to_bold_html(text) ==
    LET marked == Replace(Replace(text, ANSI_RED, BOLD_START), ANSI_RESET, BOLD_END)
        escaped == Flatten([i \in 1..Len(marked) |-> EscapeChar(marked[i])])
    IN Replace(Replace(escaped, BOLD_START, <<"<", "s", "t", "r", "o", "n", "g", ">">>),
               BOLD_END, <<"<", "/", "s", "t", "r", "o", "n", "g", ">">>)

\* _ansi_to_bold_html tabulated over the contexts a record of the model holds
ContextHtml ==
    [c \in UNION {{PageContext[n][k] : k \in 1..n} : n \in PageChoices} |->
        _ansi_to_bold_html(c)]

\* every row links to the summary as soon as a summary file name is given
IndexRow_AlwaysSummary(rec, link_prefix, summary_link_prefix, summary_filename, pages_map) ==
    LET file_name == BaseName(rec.source_path)
        key == <<rec.source_path, rec.page_number>>
        has == summary_filename \notin {NONE, ""} /\ summary_link_prefix # NONE
    IN [file_name |-> file_name,
        page_number |-> rec.page_number,
        context |-> ContextHtml[rec.context],
        source_href |-> link_prefix \o file_name,
        has_summary |-> has,
        summary_href |-> IF has THEN summary_link_prefix \o summary_filename ELSE NONE,
        summary_page |-> IF has /\ key \in DOMAIN pages_map THEN pages_map[key] ELSE 0]

\* the row of one record: the rendered context, the source link and, when
\* the page map has the record's page, the summary link <<file, N>> standing
\* for file#page=N.
\* `if summary_pages`, `summary_page and summary_filename` test truthiness:
\* an empty map, a page 0 and an empty file name count as absent.
IndexRow(rec, link_prefix, summary_link_prefix, summary_filename, pages_map) ==
    LET file_name == BaseName(rec.source_path)
        key == <<rec.source_path, rec.page_number>>
        has == /\ DOMAIN pages_map # {} /\ key \in DOMAIN pages_map
               /\ pages_map[key] # 0
               /\ summary_filename \notin {NONE, ""} /\ summary_link_prefix # NONE
    IN [file_name |-> file_name,
        page_number |-> rec.page_number,
        context |-> ContextHtml[rec.context],
        source_href |-> link_prefix \o file_name,
        has_summary |-> has,
        summary_href |-> IF has THEN summary_link_prefix \o summary_filename ELSE NONE,
        summary_page |-> IF has THEN pages_map[key] ELSE 0]

IndexRows(records, link_prefix, summary_link_prefix, summary_filename, pages_map) ==
    [i \in 1..Len(records) |->
        IndexRow(records[i], link_prefix, summary_link_prefix, summary_filename,
                 pages_map)]

\* number of characters of str(n), n >= 0
RECURSIVE DecimalLen(_)
DecimalLen(n) == IF n < 10 THEN 1 ELSE 1 + DecimalLen(n \div 10)

\* lines 161-172: number of characters of the markup of one row; the file
\* names and prefixes of the model hold no character html.escape changes
RowLen(row) ==
    LET source == Len("<a href=\"") + Len(row.source_href) + Len("\">source</a>")
        summary == IF row.has_summary
                   THEN Len("<br>") + Len("<a href=\"") + Len(row.summary_href)
                           + Len("#page=") + DecimalLen(row.summary_page)
                           + Len("\">summary</a>")
                   ELSE 0
    IN Len("<tr>")
         + Len("<td>") + Len(row.file_name) + Len("</td>")
         + Len("<td>") + DecimalLen(row.page_number) + Len("</td>")
         + Len("<td class=\"context\">") + Len(row.context) + Len("</td>")
         + Len("<td>") + source + summary + Len("</td>")
         + Len("</tr>")

RECURSIVE RowsLen(_)
\* number of characters of "\n".join(rows)
RowsLen(rows) ==
    IF rows = <<>> THEN 0
    ELSE IF Len(rows) = 1 THEN RowLen(rows[1])
    ELSE RowLen(Head(rows)) + 1 + RowsLen(Tail(rows))

----------------------------------------------------------------------------
(* The HTML index as a file, and the directory indexer                     *)
(*                                                                         *)
(* A file is a sequence of tokens [t, n]: a character t repeated n times,  *)
(* or a block of n characters of fixed markup (t = "HEAD", "META_OPEN",    *)
(* "TAIL", "BODY"); a block cut by a bounded read is "CUT".                *)

Tok(t, n) == [t |-> t, n |-> n]

TextTokens(t) ==
    [i \in 1..Len(t.chars) |-> Tok(t.chars[i], 1)]
        \o (IF t.pad > 0 THEN <<Tok("a", t.pad)>> ELSE <<>>)

\* line 276: the back link, written when back_href is given and not empty
BackLinkLen(back_href) ==
    IF back_href \in {NONE, ""} THEN 0
    ELSE Len("<a class=\"back-link\" href=\"") + Len(back_href) + Len("\">&larr; Back</a>")

\* lines 181-297: number of characters after the metadata element: the fixed
\* markup, the title, the back link, the escaped pattern and the rows (the
\* titles and back links of the model hold no character html.escape changes)
TailOf(pattern_text, report_title, back_href, rows) ==
    LET escaped == html_escape(pattern_text)
    IN TailLen + Len(report_title) + BackLinkLen(back_href)
         + Len(escaped.chars) + escaped.pad + RowsLen(rows)

\* the text of the page _write_html_index writes
HtmlDocument(pattern_text, report_title, back_href, rows) ==
    [readable |-> TRUE,
     tokens |-> <<Tok("HEAD", HeadLen), Tok("META_OPEN", MetaOpenLen)>>
                  \o TextTokens(html_escape(pattern_text))
                  \o <<Tok("\"", 1), Tok(" ", 1), Tok("/", 1), Tok(">", 1),
                       Tok("TAIL", TailOf(pattern_text, report_title, back_href, rows))>>]

\* an HTML file without the metadata element, and one that cannot be read
PlainHtml == [readable |-> TRUE, tokens |-> <<Tok("BODY", 120)>>]
Unreadable == [readable |-> FALSE, tokens |-> <<>>]

IsBlock(t) == t \in {"HEAD", "META_OPEN", "TAIL", "BODY", "CUT"}

RECURSIVE ReadPrefix(_, _)
\* handle.read(limit)
ReadPrefix(tokens, limit) ==
    IF tokens = <<>> \/ limit <= 0 THEN <<>>
    ELSE LET tok == Head(tokens)
         IN IF tok.n <= limit
            THEN <<tok>> \o ReadPrefix(Tail(tokens), limit - tok.n)
            ELSE IF IsBlock(tok.t) THEN <<Tok("CUT", limit)>>
            ELSE <<Tok(tok.t, limit)>>

RECURSIVE GroupLen(_, _)
\* [^"]* : the tokens from position i on that hold no double quote
GroupLen(tokens, i) ==
    IF i <= Len(tokens) /\ ~IsBlock(tokens[i].t) /\ tokens[i].t # "\""
    THEN 1 + GroupLen(tokens, i + 1)
    ELSE 0

RECURSIVE SkipSpace(_, _)
SkipSpace(tokens, i) ==
    IF i <= Len(tokens) /\ tokens[i].t \in {" ", "\t", "\n"}
    THEN SkipSpace(tokens, i + 1) ELSE i

\* "\s*/?> at position i
ClosesAt(tokens, i) ==
    /\ i <= Len(tokens) /\ tokens[i].t = "\"" /\ tokens[i].n = 1
    /\ LET j == SkipSpace(tokens, i + 1)
           k == IF j <= Len(tokens) /\ tokens[j].t = "/" /\ tokens[j].n = 1
                THEN j + 1 ELSE j
       IN k <= Len(tokens) /\ tokens[k].t = ">"

TokensText(tokens) ==
    LET singles == SelectSeq(tokens, LAMBDA tok : tok.n = 1)
        runs == SelectSeq(tokens, LAMBDA tok : tok.n > 1)
    IN Txt([i \in 1..Len(singles) |-> singles[i].t],
           IF runs = <<>> THEN 0 ELSE runs[1].n)

\* re.search(r'<meta name="gpdf-pattern" content="([^"]*)"\s*/?>', content):
\* found, and group 1
MetaSearch(tokens) ==
    LET starts == {i \in 1..Len(tokens) :
                      /\ tokens[i].t = "META_OPEN"
                      /\ ClosesAt(tokens, i + 1 + GroupLen(tokens, i + 1))}
    IN IF starts = {} THEN [found |-> FALSE, group |-> Txt(<<>>, 0)]
       ELSE LET i == CHOOSE x \in starts : \A y \in starts : x <= y
            IN [found |-> TRUE,
                group |-> TokensText(SubSeq(tokens, i + 1, i + GroupLen(tokens, i + 1)))]

UnknownPattern == Txt(<<"unknown pattern">>, 0)

\* names of the model in ascending code point order, as sorted() orders them
NameOrder ==
    <<"A.HTML", "gpdf-2024-01-01-001.html", "index.html", "notes.txt", "out.pdf",
      "r1.html", "r2.html">>

\* name.lower().endswith(".html")
EndsWithHtml(name) ==
    name \in {"A.HTML", "gpdf-2024-01-01-001.html", "index.html", "r1.html", "r2.html"}

SortedNames(names) == SelectSeq(NameOrder, LAMBDA n : n \in names)

RECURSIVE IndexEntries(_, _, _)
\* the `for name in sorted(os.listdir(scan_dir))` loop
IndexEntries(files, names, link_prefix) ==
    IF names = <<>> THEN <<>>
    ELSE LET name == Head(names)
             rest == IndexEntries(files, Tail(names), link_prefix)
             m == MetaSearch(ReadPrefix(files[name].tokens, ReadLimit))
         IN IF ~EndsWithHtml(name) THEN rest
            ELSE IF name = "index.html" THEN rest
            ELSE IF ~files[name].readable THEN rest
            ELSE <<[name |-> name,
                    pattern_text |-> IF m.found THEN html_unescape(m.group)
                                     ELSE UnknownPattern,
                    href |-> link_prefix \o name]>> \o rest

\* the indexer that skips a file without the metadata element
_build_reports_index_SkipNoMeta(files, link_prefix) ==
    SelectSeq(IndexEntries(files, SortedNames(DOMAIN files), link_prefix),
              LAMBDA row : row.pattern_text # UnknownPattern)

\* files: the files of scan_dir, name -> content; the rows of index.html
_build_reports_index(files, link_prefix) ==
    IndexEntries(files, SortedNames(DOMAIN files), link_prefix)

----------------------------------------------------------------------------
(* main()                                                                  *)

\* re.compile raises re.error on an unbalanced parenthesis
IsValidRegex(pattern) == \A i \in 1..Len(pattern.chars) : pattern.chars[i] # "("

PatternChoices == {Txt(<<"(">>, 0), Txt(<<"a">>, 0)}

ArgsChoices ==
    [pattern : PatternChoices,
     paths : SeqsUpTo(ArgPathChoices, MaxArgs),
     html : BOOLEAN,
     merge : {FALSE},
     merge_path : {NONE, "out.pdf"},
     report : BOOLEAN]

\* line 635, and the title the reports of SpecReports are written with
DefaultTitle == "gpdf results"

NoOutputs ==
    [html_path |-> NONE, merge_path |-> NONE, output_dir |-> NONE,
     copy_pdfs |-> FALSE, link_prefix |-> "", summary_link_prefix |-> "",
     back_href |-> NONE, default_title |-> DefaultTitle,
     html_dir |-> NONE, source_dir |-> NONE, summaries_dir |-> NONE]

NoComposite == [saved |-> FALSE, pages |-> <<>>, toc |-> <<>>, entries |-> <<>>]
NoHtml == [saved |-> FALSE, rows |-> <<>>, file |-> Unreadable]

IdleCtx == [stage |-> "idle"]
IdleRep == [stage |-> "idle"]

Init ==
    /\ args \in ArgsChoices
    /\ (args.report => ~args.html /\ args.merge_path = NONE)
    /\ fs \in [cwd : CwdListings, docs : DocsListings, doc : {<<>>}]
    /\ pc = "start"
    /\ exit_code = {}
    /\ paths = <<>>
    /\ out = NoOutputs
    /\ idx = 0
    /\ all_records = <<>>
    /\ matched_pages_by_file = <<>>
    /\ summary_pages = <<>>
    /\ handles = {}
    /\ opens = 0
    /\ scanLog = <<>>
    /\ mergeLog = <<>>
    /\ dirs = {}
    /\ written = {}
    /\ composite = NoComposite
    /\ html_index = NoHtml
    /\ reports_index = <<>>
    /\ stderr = <<>>
    /\ stdout = <<>>
    /\ ctx = IdleCtx
    /\ rep = IdleRep

\* the error is reported but main goes on
CompileNoReturn ==
    /\ pc = "start"
    /\ IF IsValidRegex(args.pattern)
       THEN UNCHANGED stderr
       ELSE stderr' = Append(stderr, <<"ERROR", "invalid regex">>)
    /\ pc' = "collect"
    /\ UNCHANGED <<args, fs, exit_code, paths, out, idx, all_records,
                   matched_pages_by_file, summary_pages, handles, opens, scanLog,
                   mergeLog, dirs, written, composite, html_index, reports_index,
                   stdout, ctx, rep>>

\* lines 596-600
Compile ==
    /\ pc = "start"
    /\ IF IsValidRegex(args.pattern)
       THEN /\ pc' = "collect"
            /\ UNCHANGED <<exit_code, stderr>>
       ELSE /\ stderr' = Append(stderr, <<"ERROR", "invalid regex">>)
            /\ exit_code' = {2}
            /\ pc' = "done"
    /\ UNCHANGED <<args, fs, paths, out, idx, all_records, matched_pages_by_file,
                   summary_pages, handles, opens, scanLog, mergeLog, dirs, written,
                   composite, html_index, reports_index, stdout, ctx, rep>>

\* lines 602-605
Collect ==
    /\ pc = "collect"
    /\ paths' = CollectPaths(fs, args.paths)
    /\ IF paths' = <<>>
       THEN /\ stderr' = Append(stderr, <<"No PDF files found.", "">>)
            /\ exit_code' = {1}
            /\ pc' = "done"
       ELSE /\ pc' = "resolve"
            /\ UNCHANGED <<exit_code, stderr>>
    /\ UNCHANGED <<args, fs, out, idx, all_records, matched_pages_by_file,
                   summary_pages, handles, opens, scanLog, mergeLog, dirs, written,
                   composite, html_index, reports_index, stdout, ctx, rep>>

\* lines 607-635: the output paths of the run (args.html_path and
\* args.output_dir are not given, args.copy_pdfs is not set)
ResolvedOutputs(a, existing) ==
    IF a.report
    THEN [html_path |-> _resolve_output_path(existing, "", "gpdf_report/html", "html"),
          merge_path |-> _resolve_output_path(existing,
                             IF a.merge_path # NONE THEN a.merge_path ELSE "",
                             "gpdf_report/summaries", "pdf"),
          output_dir |-> "gpdf_report",
          copy_pdfs |-> TRUE,
          link_prefix |-> "../source/",
          summary_link_prefix |-> "../summaries/",
          back_href |-> "../index.html",
          default_title |-> "cwd",   \* the name of the working directory /cwd
          html_dir |-> "gpdf_report/html",
          source_dir |-> "gpdf_report/source",
          summaries_dir |-> "gpdf_report/summaries"]
    ELSE LET output_dir == IF a.html \/ a.merge \/ a.merge_path # NONE
                           THEN "_gpdf_results" ELSE NONE
             html_requested == IF a.html THEN "" ELSE NONE
             merge_requested == IF a.merge_path # NONE THEN a.merge_path
                                ELSE IF a.merge THEN "" ELSE NONE
         IN [html_path |-> _resolve_output_path(existing, html_requested, output_dir, "html"),
             merge_path |-> _resolve_output_path(existing, merge_requested, output_dir, "pdf"),
             output_dir |-> output_dir,
             copy_pdfs |-> FALSE,
             link_prefix |-> "",
             summary_link_prefix |-> "",
             back_href |-> NONE,
             default_title |-> DefaultTitle,
             html_dir |-> NONE, source_dir |-> NONE, summaries_dir |-> NONE]

\* lines 637-645
DropOutputPaths(ps, o) ==
    LET output_paths == {AbsPath(p) : p \in {o.html_path, o.merge_path} \ {NONE}}
    IN IF output_paths = {} THEN ps
       ELSE SelectSeq(ps, LAMBDA p : AbsPath(p) \notin output_paths)

\* lines 607-648
Resolve ==
    /\ pc = "resolve"
    /\ LET o == ResolvedOutputs(args, Files(fs))
       IN IF "RuntimeError" \in {o.html_path, o.merge_path}
          THEN /\ pc' = "raised"
               /\ UNCHANGED <<out, paths, idx>>
          ELSE /\ out' = o
               /\ paths' = DropOutputPaths(paths, o)
               /\ idx' = 1
               /\ pc' = "scan"
    /\ UNCHANGED <<args, fs, exit_code, all_records, matched_pages_by_file,
                   summary_pages, handles, opens, scanLog, mergeLog, dirs, written,
                   composite, html_index, reports_index, stderr, stdout, ctx, rep>>

InLoop == pc = "scan" /\ idx <= Len(paths)

\* lines 651-653
SkipMissing ==
    /\ InLoop
    /\ ~Exists(fs, paths[idx])
    /\ stderr' = Append(stderr, <<"WARN: missing", paths[idx]>>)
    /\ scanLog' = Append(scanLog, [path |-> paths[idx], outcome |-> "missing", found |-> 0,
                                   pages |-> <<>>])
    /\ idx' = idx + 1
    /\ UNCHANGED <<args, fs, pc, exit_code, paths, out, all_records,
                   matched_pages_by_file, summary_pages, handles, opens, mergeLog,
                   dirs, written, composite, html_index, reports_index, stdout, ctx, rep>>

\* lines 654-656
SkipNonPdf ==
    /\ InLoop
    /\ Exists(fs, paths[idx])
    /\ IsFile(fs, paths[idx]) /\ ~EndsWithPdf(paths[idx])
    /\ stderr' = Append(stderr, <<"WARN: skipping non-pdf", paths[idx]>>)
    /\ scanLog' = Append(scanLog, [path |-> paths[idx], outcome |-> "nonpdf", found |-> 0,
                                   pages |-> <<>>])
    /\ idx' = idx + 1
    /\ UNCHANGED <<args, fs, pc, exit_code, paths, out, all_records,
                   matched_pages_by_file, summary_pages, handles, opens, mergeLog,
                   dirs, written, composite, html_index, reports_index, stdout, ctx, rep>>

CanScan ==
    /\ InLoop
    /\ Exists(fs, paths[idx])
    /\ ~(IsFile(fs, paths[idx]) /\ ~EndsWithPdf(paths[idx]))

\* the pages of the document at path: as seen before, or seen now
DocsAt(path) ==
    IF AbsPath(path) \in DOMAIN fs.doc THEN {fs.doc[AbsPath(path)]}
    ELSE IF AbsPath(path) = "/cwd/docs/c.pdf" THEN ShortDocChoices
    ELSE DocChoices

PrintRecords(records) ==
    [i \in 1..Len(records) |->
        <<"match", BaseName(records[i].source_path), records[i].page_number>>]

\* a document that fails to open ends the run
ScanOpenFailsAborts ==
    /\ CanScan
    /\ stderr' = Append(stderr, <<"ERROR: failed to open", paths[idx]>>)
    /\ scanLog' = Append(scanLog, [path |-> paths[idx], outcome |-> "openfail",
                                   found |-> 0, pages |-> <<>>])
    /\ exit_code' = {1}
    /\ pc' = "done"
    /\ UNCHANGED <<args, fs, paths, out, idx, all_records, matched_pages_by_file,
                   summary_pages, handles, opens, mergeLog, dirs, written, composite,
                   html_index, reports_index, stdout, ctx, rep>>

\* lines 658-668 with _scan_pdf, lines 104-111: fitz.open raises
ScanOpenFails ==
    /\ CanScan
    /\ LET path == paths[idx]
           r == _scan_pdf(path, FALSE, <<>>)
       IN /\ stderr' = Append(stderr, <<"ERROR: failed to open", path>>)
          /\ all_records' = all_records \o r.matches
          /\ matched_pages_by_file' =
                DictAssign(matched_pages_by_file, path, SortedSeq(Range(r.matched_pages)))
          /\ scanLog' = Append(scanLog, [path |-> path, outcome |-> "openfail",
                                         found |-> Len(r.matches),
                                         pages |-> r.matched_pages])
    /\ idx' = idx + 1
    /\ UNCHANGED <<args, fs, pc, exit_code, paths, out, summary_pages, handles, opens,
                   mergeLog, dirs, written, composite, html_index, reports_index,
                   stdout, ctx, rep>>

\* lines 658-668 with _scan_pdf, lines 113-140: the document opens and every
\* page loads; the handle is closed at line 139
ScanPdf ==
    /\ CanScan
    /\ \E doc \in DocsAt(paths[idx]) :
         LET path == paths[idx]
             r == _scan_pdf(path, TRUE, doc)
         IN /\ fs' = [fs EXCEPT !.doc = DictSet(@, AbsPath(path), doc)]
            /\ opens' = opens + 1
            /\ all_records' = all_records \o r.matches
            /\ matched_pages_by_file' =
                  DictAssign(matched_pages_by_file, path, SortedSeq(Range(r.matched_pages)))
            /\ stdout' = stdout \o PrintRecords(r.matches)
            /\ scanLog' = Append(scanLog, [path |-> path, outcome |-> "ok",
                                           found |-> Len(r.matches),
                                           pages |-> r.matched_pages])
    /\ idx' = idx + 1
    /\ UNCHANGED <<args, pc, exit_code, paths, out, summary_pages, handles, mergeLog,
                   dirs, written, composite, html_index, reports_index, stderr, ctx, rep>>

\* _scan_pdf, lines 116-118: load_page or get_text raises on some page; the
\* exception leaves _scan_pdf and main, and line 139 is not reached
ScanPageRaises ==
    /\ CanScan
    /\ \E doc \in DocsAt(paths[idx]) : Len(doc) > 0
    /\ opens' = opens + 1
    /\ handles' = handles \cup {[path |-> paths[idx], n |-> opens + 1]}
    /\ scanLog' = Append(scanLog, [path |-> paths[idx], outcome |-> "raised", found |-> 0,
                                   pages |-> <<>>])
    /\ pc' = "raised"
    /\ UNCHANGED <<args, fs, exit_code, paths, out, idx, all_records,
                   matched_pages_by_file, summary_pages, mergeLog, dirs, written,
                   composite, html_index, reports_index, stderr, stdout, ctx, rep>>

\* lines 670-676, and line 707 when nothing matched
EndScan ==
    /\ pc = "scan" /\ idx > Len(paths)
    /\ IF all_records = <<>>
       THEN /\ exit_code' = {0}
            /\ pc' = "done"
            /\ UNCHANGED dirs
       ELSE /\ dirs' = IF args.report
                       THEN dirs \cup {out.html_dir, out.source_dir, out.summaries_dir}
                       ELSE IF out.output_dir # NONE THEN dirs \cup {out.output_dir}
                       ELSE dirs
            /\ pc' = "merge"
            /\ UNCHANGED exit_code
    /\ UNCHANGED <<args, fs, paths, out, idx, all_records, matched_pages_by_file,
                   summary_pages, handles, opens, scanLog, mergeLog, written,
                   composite, html_index, reports_index, stderr, stdout, ctx, rep>>

WithPages(items) == {items[i].path : i \in {j \in 1..Len(items) : items[j].pages # <<>>}}

\* lines 678-681: no merged PDF was asked for
MergeSkipped ==
    /\ pc = "merge"
    /\ out.merge_path = NONE
    /\ pc' = "html"
    /\ UNCHANGED <<args, fs, exit_code, paths, out, idx, all_records,
                   matched_pages_by_file, summary_pages, handles, opens, scanLog,
                   mergeLog, dirs, written, composite, html_index, reports_index,
                   stderr, stdout, ctx, rep>>

\* line 478: one diagnostic per source the loop reached and failed to open
ReopenErrors(log) ==
    LET failed == SelectSeq(log, LAMBDA e : ~e.opened)
    IN [i \in 1..Len(failed) |-> <<"ERROR: failed to open", failed[i].path>>]

\* lines 678-681 with _build_merged_pdf: any of the sources may fail to
\* reopen, and insert_pdf may raise in one that opened
Merge ==
    /\ pc = "merge"
    /\ out.merge_path # NONE
    /\ \E failing \in SUBSET WithPages(matched_pages_by_file) :
       \E raiseIn \in {NONE} \cup (WithPages(matched_pages_by_file) \ failing) :
         LET r == _build_merged_pdf(matched_pages_by_file, failing, raiseIn)
             opened == {i \in 1..Len(r.log) : r.log[i].opened}
         IN /\ mergeLog' = r.log
            /\ opens' = opens + 1 + Cardinality(opened)
            /\ stderr' = stderr \o ReopenErrors(r.log)
            /\ IF r.raised
               THEN /\ handles' = handles \cup
                          {[path |-> h, n |-> opens + 1] : h \in r.open}
                    /\ pc' = "raised"
                    /\ UNCHANGED <<summary_pages, composite, written, stdout>>
               ELSE /\ summary_pages' = r.page_map
                    /\ composite' = [saved |-> r.saved, pages |-> r.pages,
                                     toc |-> r.toc, entries |-> r.entries]
                    /\ written' = IF r.saved THEN written \cup {out.merge_path}
                                  ELSE written
                    /\ stdout' = Append(stdout, <<"Merged PDF written to", out.merge_path>>)
                    /\ pc' = "html"
                    /\ UNCHANGED handles
    /\ UNCHANGED <<args, fs, exit_code, paths, out, idx, all_records,
                   matched_pages_by_file, scanLog, dirs, html_index, reports_index,
                   ctx, rep>>

\* lines 683-698 with _write_html_index and _build_reports_index; the
\* output directory holds no report of an earlier run
Html ==
    /\ pc = "html"
    /\ IF out.html_path # NONE
       THEN LET summary_name == IF out.merge_path # NONE THEN BaseName(out.merge_path)
                                ELSE NONE
                rows == IndexRows(all_records, out.link_prefix,
                                  IF out.merge_path # NONE THEN out.summary_link_prefix
                                  ELSE NONE,
                                  summary_name, summary_pages)
                file == HtmlDocument(args.pattern, out.default_title, out.back_href, rows)
                name == BaseName(out.html_path)
            IN /\ html_index' = [saved |-> TRUE, rows |-> rows, file |-> file]
               /\ stdout' = Append(stdout, <<"HTML index written to", out.html_path>>)
               /\ reports_index' = _build_reports_index([n \in {name} |-> file],
                                       IF args.report THEN "html/" ELSE "")
               /\ written' = written \cup {out.html_path, Join(out.output_dir, "index.html")}
       ELSE UNCHANGED <<html_index, stdout, reports_index, written>>
    /\ pc' = "copy"
    /\ UNCHANGED <<args, fs, exit_code, paths, out, idx, all_records,
                   matched_pages_by_file, summary_pages, handles, opens, scanLog,
                   mergeLog, dirs, composite, stderr, ctx, rep>>

\* lines 432-438: the destinations _copy_pdfs writes
_copy_pdfs(output_dir, sources) ==
    {Join(output_dir, BaseName(src)) : src \in
        {x \in sources : AbsPath(x) # AbsPath(Join(output_dir, BaseName(x)))}}

\* lines 700-707
Copy ==
    /\ pc = "copy"
    /\ written' = IF out.output_dir # NONE /\ out.copy_pdfs
                  THEN written \cup _copy_pdfs(
                           IF args.report THEN out.source_dir ELSE out.output_dir,
                           WithPages(matched_pages_by_file))
                  ELSE written
    /\ exit_code' = {0}
    /\ pc' = "done"
    /\ UNCHANGED <<args, fs, paths, out, idx, all_records, matched_pages_by_file,
                   summary_pages, handles, opens, scanLog, mergeLog, dirs, composite,
                   html_index, reports_index, stderr, stdout, ctx, rep>>

Next ==
    \/ Compile
    \/ Collect
    \/ Resolve
    \/ SkipMissing
    \/ SkipNonPdf
    \/ ScanOpenFails
    \/ ScanPdf
    \/ ScanPageRaises
    \/ EndScan
    \/ MergeSkipped
    \/ Merge
    \/ Html
    \/ Copy

Spec == Init /\ [][Next]_vars

----------------------------------------------------------------------------
(* SpecCtx: _extract_context applied to bounded page texts *)

\* main() does not run in SpecCtx, SpecReports and SpecRoundTrip
MainParked ==
    /\ args = [pattern |-> Txt(<<"a">>, 0), paths |-> <<>>, html |-> FALSE,
               merge |-> FALSE, merge_path |-> NONE, report |-> FALSE]
    /\ fs = [cwd |-> <<"notes.txt">>, docs |-> <<"readme.md">>, doc |-> <<>>]
    /\ pc = "parked"
    /\ exit_code = {}
    /\ paths = <<>>
    /\ out = NoOutputs
    /\ idx = 0
    /\ all_records = <<>>
    /\ matched_pages_by_file = <<>>
    /\ summary_pages = <<>>
    /\ handles = {}
    /\ opens = 0
    /\ scanLog = <<>>
    /\ mergeLog = <<>>
    /\ dirs = {}
    /\ written = {}
    /\ composite = NoComposite
    /\ html_index = NoHtml
    /\ reports_index = <<>>
    /\ stderr = <<>>
    /\ stdout = <<>>

\* a page text is built from at most MaxText pieces: single characters, or
\* single characters and one of the reserved strings at some place
CtxPlain == SeqsUpTo({<<c>> : c \in CtxChars}, MaxText)

CtxTexts ==
    CtxPlain \cup
    UNION {{SubSeq(ps, 1, k) \o <<r>> \o SubSeq(ps, k + 1, Len(ps)) :
                k \in 0..Len(ps), r \in CtxReserved} :
           ps \in {q \in CtxPlain : Len(q) < MaxText}}

\* the window is a small one or the default of --context
CtxWindows == 0..MaxWindow \cup {ContextWindow}

\* the match begins and ends between two pieces
InitCtx ==
    /\ MainParked
    /\ rep = IdleRep
    /\ \E ps \in CtxTexts, w \in CtxWindows :
         \E j \in 0..Len(ps) :
           \E i \in 0..j :
             ctx = [stage |-> "input", text |-> Flatten(ps),
                    start |-> Len(Flatten(SubSeq(ps, 1, i))),
                    end |-> Len(Flatten(SubSeq(ps, 1, j))),
                    window |-> w, result |-> <<>>]

ExtractContext ==
    /\ ctx.stage = "input"
    /\ ctx' = [ctx EXCEPT !.stage = "done",
                          !.result = _extract_context(ctx.text, ctx.start, ctx.end,
                                                      ctx.window)]
    /\ UNCHANGED <<mainVars, rep>>

NextCtx == ExtractContext

SpecCtx == InitCtx /\ [][NextCtx]_vars

----------------------------------------------------------------------------
(* The reports directory: files come and go, then the indexer runs *)

ReportNames == {"A.HTML", "index.html", "notes.txt", "r1.html", "r2.html"}

ReportPatterns == {Txt(<<"a">>, 0), Txt(<<"<", "a">>, 0)}

InitReports ==
    /\ MainParked
    /\ ctx = IdleCtx
    /\ rep = [stage |-> "open", files |-> <<>>, rows |-> <<>>]

\* _write_html_index, lines 174-300, writes a report into the directory
WriteReport ==
    /\ rep.stage = "open"
    /\ \E name \in ReportNames \ {"index.html", "notes.txt"}, p \in ReportPatterns :
         rep' = [rep EXCEPT !.files = DictSet(@, name, HtmlDocument(p, DefaultTitle, NONE, <<>>))]
    /\ UNCHANGED <<mainVars, ctx>>

\* some other program leaves a file without the metadata element there
PlaceForeignFile ==
    /\ rep.stage = "open"
    /\ \E name \in ReportNames :
         rep' = [rep EXCEPT !.files = DictSet(@, name, PlainHtml)]
    /\ UNCHANGED <<mainVars, ctx>>

\* a file of the directory cannot be opened or decoded as UTF-8
PlaceUnreadableFile ==
    /\ rep.stage = "open"
    /\ \E name \in ReportNames :
         rep' = [rep EXCEPT !.files = DictSet(@, name, Unreadable)]
    /\ UNCHANGED <<mainVars, ctx>>

\* _build_reports_index, lines 303-425, scanning the directory itself
BuildReportsIndex ==
    /\ rep.stage = "open"
    /\ rep' = [stage |-> "built",
               files |-> DictSet(rep.files, "index.html", PlainHtml),
               rows |-> _build_reports_index(rep.files, "")]
    /\ UNCHANGED <<mainVars, ctx>>

NextReports ==
    \/ WriteReport
    \/ PlaceForeignFile
    \/ PlaceUnreadableFile
    \/ BuildReportsIndex

SpecReports == InitReports /\ [][NextReports]_vars

----------------------------------------------------------------------------
(* Round trip of the pattern through one report *)

PatChars == {"a", "&", "<", ">", "\"", "l", "t"}

\* no padding, and paddings around the longest pattern the bounded read holds
PadChoices == {0, ReadLimit - 111, ReadLimit - 104}

RoundTripPatterns ==
    {Txt(cs, pad) : cs \in SeqsUpTo(PatChars, MaxPat), pad \in PadChoices}

InitRoundTrip ==
    /\ MainParked
    /\ ctx = IdleCtx
    /\ rep \in {[stage |-> "input", pattern |-> p, files |-> <<>>, rows |-> <<>>] :
                   p \in RoundTripPatterns}

WriteHtmlIndex ==
    /\ rep.stage = "input"
    /\ rep' = [rep EXCEPT !.stage = "written",
                          !.files = DictSet(@, "r1.html",
                                           HtmlDocument(rep.pattern, DefaultTitle, NONE, <<>>))]
    /\ UNCHANGED <<mainVars, ctx>>

RecoverPattern ==
    /\ rep.stage = "written"
    /\ rep' = [rep EXCEPT !.stage = "built",
                          !.files = DictSet(@, "index.html", PlainHtml),
                          !.rows = _build_reports_index(rep.files, "")]
    /\ UNCHANGED <<mainVars, ctx>>

NextRoundTrip ==
    \/ WriteHtmlIndex
    \/ RecoverPattern

SpecRoundTrip == InitRoundTrip /\ [][NextRoundTrip]_vars

----------------------------------------------------------------------------
(* Properties of main() and the assembler, under Spec *)

RECURSIVE SumSeq(_)
SumSeq(ns) == IF ns = <<>> THEN 0 ELSE Head(ns) + SumSeq(Tail(ns))

\* _build_merged_pdf has returned in this run
MergeRan ==
    /\ pc \in {"html", "copy", "done"}
    /\ out.merge_path # NONE
    /\ all_records # <<>>

\* the pages of the composite that were copied from a source
CopiedPositions == {i \in 1..Len(composite.pages) : composite.pages[i].kind = "copy"}

\* the matched pages of every file of the batch
MatchedTotal ==
    SumSeq([i \in 1..Len(matched_pages_by_file) |-> Len(matched_pages_by_file[i].pages)])

\* the sources the assembler failed to reopen
NotReopened == {mergeLog[i].path : i \in {j \in 1..Len(mergeLog) : ~mergeLog[j].opened}}

\* the matched pages of the files the assembler reopened
ReopenedTotal ==
    SumSeq([i \in 1..Len(matched_pages_by_file) |->
              IF matched_pages_by_file[i].path \in NotReopened THEN 0
              ELSE Len(matched_pages_by_file[i].pages)])

\* C1 (as claimed): the page map sends every copied page (sourcePath,
\* sourcePageNumber) to the position that page has in the composite as
\* saved, and every summary link #page=N of the HTML index addresses the
\* page of its record.
C1_PageMapIsSavedPosition ==
    /\ MergeRan /\ composite.saved =>
         \A key \in DOMAIN summary_pages :
            LET pg == composite.pages[summary_pages[key]]
            IN pg.kind = "copy" /\ pg.source_path = key[1] /\ pg.source_page = key[2]
    /\ html_index.saved /\ composite.saved =>
         \A i \in 1..Len(html_index.rows) :
            html_index.rows[i].has_summary =>
               LET pg == composite.pages[html_index.rows[i].summary_page]
               IN /\ pg.kind = "copy"
                  /\ pg.source_path = all_records[i].source_path
                  /\ pg.source_page = all_records[i].page_number

\* C2 (as claimed): after the assembler ran, the composite has as many pages
\* as there are matched pages in all files, plus one contents page when that
\* number is at least 1; when it is 0 no composite is written.
C2_PageCountIsMatchedTotal ==
    MergeRan =>
        /\ Len(composite.pages) = MatchedTotal + (IF MatchedTotal >= 1 THEN 1 ELSE 0)
        /\ (MatchedTotal = 0 => ~composite.saved /\ out.merge_path \notin written)

\* C2 (amended): after the assembler ran, the composite has as many pages as
\* there are matched pages in the files the assembler reopened, plus one
\* contents page when that number is at least 1; when it is 0 no composite
\* is written, and otherwise it is written to the merge path.
C2_PageCountIsReopenedTotal ==
    MergeRan =>
        /\ Len(composite.pages) = ReopenedTotal + (IF ReopenedTotal >= 1 THEN 1 ELSE 0)
        /\ Cardinality(CopiedPositions) = ReopenedTotal
        /\ (ReopenedTotal >= 1 => composite.pages[1].kind = "contents")
        /\ (ReopenedTotal = 0 => ~composite.saved /\ out.merge_path \notin written)
        /\ (ReopenedTotal >= 1 => composite.saved /\ out.merge_path \in written)

\* C2 witness: two files with matched pages, one of which the assembler
\* failed to reopen, and a composite of the other's pages was saved.
C2_Witness ==
    /\ MergeRan
    /\ composite.saved
    /\ NotReopened # {}
    /\ Len(composite.pages) >= 2

\* C3: the page map has exactly one entry per copied page: as many entries as
\* copied pages, the copied pages have pairwise distinct keys (sourcePath,
\* sourcePageNumber), and every key of the map is a copied page; also when a
\* path is supplied twice.
C3_OneEntryPerCopiedPage ==
    MergeRan =>
        LET keyOf(i) == <<composite.pages[i].source_path, composite.pages[i].source_page>>
        IN /\ Cardinality(DOMAIN summary_pages) = Cardinality(CopiedPositions)
           /\ \A i, j \in CopiedPositions : keyOf(i) = keyOf(j) => i = j
           /\ DOMAIN summary_pages = {keyOf(i) : i \in CopiedPositions}
           /\ Len(composite.entries) = Cardinality(CopiedPositions)

\* C3 witness: the same path was supplied twice and scanned twice, and its
\* pages were copied.
C3_Witness ==
    /\ MergeRan
    /\ Len(paths) = 2 /\ paths[1] = paths[2]
    /\ Len(scanLog) = 2 /\ scanLog[1].outcome = "ok" /\ scanLog[2].outcome = "ok"
    /\ Cardinality(CopiedPositions) >= 2

OpenFailures == {i \in 1..Len(scanLog) : scanLog[i].outcome = "openfail"}

PagesOf(path) ==
    LET at == {i \in 1..Len(matched_pages_by_file) : matched_pages_by_file[i].path = path}
    IN IF at = {} THEN <<>> ELSE matched_pages_by_file[CHOOSE i \in at : TRUE].pages

\* C5: a document that fails to open yields no record and no matched page and
\* one diagnostic, and the batch goes on: the loop moves to the next path,
\* every path is visited, the records are those of the other files, and main
\* returns 0.  A source the assembler fails to reopen is skipped, and the
\* pages of every other source are copied.
C5_OpenFailureTolerated ==
    /\ \A i \in OpenFailures :
          /\ scanLog[i].found = 0
          /\ scanLog[i].pages = <<>>
          /\ <<"ERROR: failed to open", scanLog[i].path>> \in Range(stderr)
          /\ (pc = "scan" => idx > i)
    /\ pc \in {"scan", "merge", "html", "copy"} \/ (pc = "done" /\ exit_code = {0}) =>
          /\ Len(all_records) = SumSeq([i \in 1..Len(scanLog) |-> scanLog[i].found])
          /\ \A i \in 1..Len(scanLog) : scanLog[i].path = paths[i]
    /\ pc \in {"merge", "html", "copy"} \/ (pc = "done" /\ exit_code = {0}) =>
          Len(scanLog) = Len(paths)
    /\ (pc = "done" /\ OpenFailures # {}) => exit_code = {0}
    /\ MergeRan =>
          \A i \in 1..Len(mergeLog) :
             LET copied == {j \in CopiedPositions :
                               composite.pages[j].source_path = mergeLog[i].path}
             IN IF mergeLog[i].opened
                THEN {composite.pages[j].source_page : j \in copied}
                        = {k + 1 : k \in Range(PagesOf(mergeLog[i].path))}
                ELSE copied = {}

\* C5 witness: the first document failed to open, the second was scanned and
\* matched, and main returned 0.
C5_Witness ==
    /\ pc = "done" /\ exit_code = {0}
    /\ Len(scanLog) = 2
    /\ scanLog[1].outcome = "openfail"
    /\ scanLog[2].outcome = "ok" /\ scanLog[2].found > 0

\* C6 (as claimed): every handle opened by the scanner or the assembler is
\* closed on every exit path, so none is open when the run ends, whether
\* main returned or an exception left it.
C6_NoHandleLeftOpen == pc \in {"done", "raised"} => handles = {}

\* C7: with an invalid pattern main returns 2 and has collected no path,
\* opened no document, created no directory and written no file.
C7_InvalidPatternTouchesNothing ==
    (~IsValidRegex(args.pattern) /\ pc # "start") =>
        /\ pc = "done"
        /\ exit_code = {2}
        /\ paths = <<>>
        /\ opens = 0 /\ handles = {} /\ scanLog = <<>>
        /\ dirs = {} /\ written = {}
        /\ ~composite.saved /\ ~html_index.saved /\ reports_index = <<>>

\* C7 witness: main returned 2 on a command line that names paths and asks
\* for the HTML index and the merged PDF.
C7_Witness ==
    /\ pc = "done" /\ exit_code = {2}
    /\ args.paths # <<>> /\ args.html /\ args.merge_path # NONE

\* some PDF input reached the scanner
SomeInputResolved == \E i \in 1..Len(scanLog) : scanLog[i].outcome \in {"ok", "openfail"}

\* no path argument yields a candidate: none was given and the working
\* directory holds no PDF, or each one is a directory without PDFs
NothingCollected ==
    IF args.paths = <<>> THEN "a.pdf" \notin Range(fs.cwd)
    ELSE \A i \in 1..Len(args.paths) :
            args.paths[i] = "docs" /\ "c.pdf" \notin Range(fs.docs)

\* C8 (as claimed): with a valid pattern main returns 1 exactly when no PDF
\* input is resolved (also when every path is missing, not a PDF or an output
\* path), and 0 only when at least one PDF input was resolved.
C8_ExitOneIffNothingResolved ==
    (pc = "done" /\ IsValidRegex(args.pattern)) =>
        /\ exit_code = {1} <=> ~SomeInputResolved
        /\ exit_code = {0} => SomeInputResolved

\* C8 (amended): with a valid pattern main returns 1 exactly when the paths
\* yield no candidate at all (no path given and no PDF in the working
\* directory, or only directories without PDFs); whenever a candidate was
\* collected main returns 0, also when every candidate is then skipped as
\* missing, not a PDF or an output path.
C8_ExitOneIffNothingCollected ==
    (pc = "done" /\ IsValidRegex(args.pattern)) =>
        /\ exit_code = {1} <=> NothingCollected
        /\ exit_code = {0} <=> ~NothingCollected

\* C8 witness: main returned 0 although every candidate was skipped.
C8_Witness ==
    /\ pc = "done" /\ exit_code = {0}
    /\ args.paths # <<>>
    /\ ~SomeInputResolved

----------------------------------------------------------------------------
(* Properties of _extract_context, under SpecCtx *)

\* where the string c begins in text
Positions(text, c) ==
    {i \in 1..(Len(text) - Len(c) + 1) : SubSeq(text, i, i + Len(c) - 1) = c}

\* the page text holds a colour code or the character that delimits the
\* sentinels
HoldsReserved(text) ==
    \/ Positions(text, ANSI_RED) # {} \/ Positions(text, ANSI_RESET) # {}
    \/ Positions(text, <<NUL>>) # {}

\* the text between the begin marker and the end marker
Marked(text) ==
    LET b == CHOOSE i \in Positions(text, ANSI_RED) : TRUE
        e == CHOOSE i \in Positions(text, ANSI_RESET) : TRUE
    IN SubSeq(text, b + Len(ANSI_RED), e - 1)

MarkersInOrder(text) ==
    /\ Cardinality(Positions(text, ANSI_RED)) = 1
    /\ Cardinality(Positions(text, ANSI_RESET)) = 1
    /\ \A b \in Positions(text, ANSI_RED), e \in Positions(text, ANSI_RESET) : b < e

\* C4 (as claimed): the text between the markers of the result is exactly
\* pageText[start:end], for every text, match span and window.
C4_MarkedTextIsMatch ==
    ctx.stage = "done" =>
        /\ MarkersInOrder(ctx.result)
        /\ Marked(ctx.result) = Slice(ctx.text, ctx.start, ctx.end)

\* C4 (amended): for a page text that holds neither an ANSI colour code nor
\* the character \x00, both markers are in the result, once
\* each and in order, and the text between them is pageText[start:end] with
\* every run of whitespace replaced by one space and nothing trimmed: no
\* context character is inside the markers and no character of the match
\* other than whitespace is changed or lost.
C4_MarkedTextIsCollapsedMatch ==
    ctx.stage = "done" /\ ~HoldsReserved(ctx.text) =>
        /\ MarkersInOrder(ctx.result)
        /\ Marked(ctx.result) = CollapseSpace(Slice(ctx.text, ctx.start, ctx.end))

\* Without the condition on the page text the amended statement fails: a
\* colour code or a sentinel of the page text comes back as a marker, and
\* so does a part of a sentinel next to the match.
MarkedTextIsCollapsedMatchOnAnyText ==
    ctx.stage = "done" =>
        /\ MarkersInOrder(ctx.result)
        /\ Marked(ctx.result) = CollapseSpace(Slice(ctx.text, ctx.start, ctx.end))

\* A page text that begins with the end sentinel: the result has two end
\* markers, the first of them before the begin marker.
ReservedTextCollides ==
    /\ ctx.stage = "done"
    /\ ctx.text = SENTINEL_END \o <<" ", "a">>
    /\ ctx.start = 11 /\ ctx.end = 12 /\ ctx.window = ContextWindow
    /\ ctx.result = ANSI_RESET \o <<" ">> \o ANSI_RED \o <<"a">> \o ANSI_RESET

\* A page text that holds no sentinel, only the begin sentinel without its
\* first character right after the match: the end marker is lost and there
\* are two begin markers.
SentinelPartCollides ==
    /\ ctx.stage = "done"
    /\ ctx.text = <<"a">> \o SubSeq(SENTINEL_START, 2, Len(SENTINEL_START))
    /\ ctx.start = 0 /\ ctx.end = 1 /\ ctx.window = ContextWindow
    /\ ctx.result = ANSI_RED \o <<"a">>
                      \o SubSeq(SENTINEL_END, 1, Len(SENTINEL_END) - 1) \o ANSI_RED

\* C4 witness: a match that begins with a newline, with whitespace context
\* on both sides and a window clipped at both ends of the text; the newline
\* of the match comes back as a space.
C4_Witness ==
    /\ ctx.stage = "done"
    /\ ctx.text = <<" ", "\n", "a", " ">>
    /\ ctx.start = 1 /\ ctx.end = 3 /\ ctx.window = 2
    /\ ctx.result = ANSI_RED \o <<" ", "a">> \o ANSI_RESET

----------------------------------------------------------------------------
(* Properties of the directory indexer, under SpecReports *)

Candidates == {n \in DOMAIN rep.files : EndsWithHtml(n) /\ n # "index.html"}

ReadableCandidates == {n \in Candidates : rep.files[n].readable}

Rank(name) == CHOOSE i \in 1..Len(NameOrder) : NameOrder[i] = name

RowsAscending ==
    \A i, j \in 1..Len(rep.rows) : i < j => Rank(rep.rows[i].name) < Rank(rep.rows[j].name)

\* C9 (as claimed): one row per *.html file other than index.html, in
\* ascending order, so that the number of rows equals the number of
\* candidate files.
C9_OneRowPerCandidate ==
    rep.stage = "built" =>
        /\ Len(rep.rows) = Cardinality(Candidates)
        /\ {rep.rows[i].name : i \in 1..Len(rep.rows)} = Candidates
        /\ RowsAscending

\* C9 (amended): one row per file that can be read as text and whose name
\* ends in .html whatever its case, other than index.html, in ascending
\* file-name order; a readable file without the metadata element gets a row
\* with the fallback placeholder and a report gets a row with its pattern; a
\* file that cannot be read gets no row, so the number of rows equals the
\* number of readable candidates.
C9_OneRowPerReadableCandidate ==
    rep.stage = "built" =>
        /\ Len(rep.rows) = Cardinality(ReadableCandidates)
        /\ {rep.rows[i].name : i \in 1..Len(rep.rows)} = ReadableCandidates
        /\ RowsAscending
        /\ \A i \in 1..Len(rep.rows) :
              LET file == rep.files[rep.rows[i].name]
              IN /\ file = PlainHtml => rep.rows[i].pattern_text = UnknownPattern
                 /\ \A p \in ReportPatterns :
                       file = HtmlDocument(p, DefaultTitle, NONE, <<>>)
                          => rep.rows[i].pattern_text = p

\* C9 witness: the directory of the example, a report and a file without the
\* metadata element, indexed as two rows, the second with the placeholder.
C9_Witness ==
    /\ rep.stage = "built"
    /\ Len(rep.rows) = 2
    /\ rep.rows[1].name = "r1.html" /\ rep.rows[1].pattern_text = Txt(<<"a">>, 0)
    /\ rep.rows[2].name = "r2.html" /\ rep.rows[2].pattern_text = UnknownPattern

----------------------------------------------------------------------------
(* Round trip of the pattern, under SpecRoundTrip *)

\* C10 (as claimed): the pattern the indexer recovers from a page written by
\* _write_html_index is the pattern the page was written with.
C10_PatternRoundTrip ==
    rep.stage = "built" =>
        /\ Len(rep.rows) = 1
        /\ Canon(rep.rows[1].pattern_text) = Canon(rep.pattern)

\* the metadata element ends within the prefix the indexer reads
FitsInPrefix(pattern) ==
    LET escaped == html_escape(pattern)
    IN HeadLen + MetaOpenLen + Len(escaped.chars) + escaped.pad + 4 <= ReadLimit

\* what does hold for the patterns of RoundTripPatterns (none holds a
\* carriage return): the round trip of every pattern whose metadata element
\* ends within the first ReadLimit characters of the page; a longer pattern
\* comes back as the placeholder
C10_ShortPatternRoundTrip ==
    rep.stage = "built" =>
        /\ Len(rep.rows) = 1
        /\ Canon(rep.rows[1].pattern_text) =
              IF FitsInPrefix(rep.pattern) THEN Canon(rep.pattern) ELSE UnknownPattern

----------------------------------------------------------------------------
(* Automatic output names: _next_available_output on a target directory    *)
(*                                                                         *)
(* rep holds the directory: the numbers NNN for which gpdf-<date>-NNN.ext  *)
(* is present, whether names of the other extension are present too, and   *)
(* the path returned ("RuntimeError": the function raised).                *)

MaxTaken == 5       \* highest number of a sparsely filled directory

NamingDir == "_gpdf_results"

Exts == {"html", "pdf"}

OtherExt(ext) == IF ext = "html" THEN "pdf" ELSE "html"

\* the numbers range(1, 1000) probes
ProbeRange == 1..(ProbeLimit - 1)

\* sparsely filled directories, and directories that are full or nearly so
TakenChoices ==
    (SUBSET (1..MaxTaken))
        \cup {ProbeRange \ hole : hole \in {{}, {1}, {500}, {ProbeLimit - 1}}}

\* the absolute paths for which os.path.exists is true
ExistingIn(dir, ext, taken, other) ==
    {AbsPath(Join(dir, AutoName(i, ext))) : i \in taken}
        \cup {AbsPath(Join(dir, AutoName(i, OtherExt(ext)))) : i \in other}

InitNaming ==
    /\ MainParked
    /\ ctx = IdleCtx
    /\ rep \in [stage : {"probe"}, taken : TakenChoices, other : {{}, {1, 2}},
                ext : Exts, result : {NONE}]

\* lines 441-448, called with the directory as it is
NextAvailableOutput ==
    /\ rep.stage = "probe"
    /\ rep' = [rep EXCEPT
                 !.stage = "named",
                 !.result = _next_available_output(
                                ExistingIn(NamingDir, rep.ext, rep.taken, rep.other),
                                NamingDir, rep.ext)]
    /\ UNCHANGED <<mainVars, ctx>>

NextNaming == NextAvailableOutput

SpecNaming == InitNaming /\ [][NextNaming]_vars

----------------------------------------------------------------------------
(* Properties of _next_available_output, under SpecNaming *)

FreeNumbers == ProbeRange \ rep.taken

\* C11: the function returns gpdf-<date>-<NNN>.<ext> in the directory for the
\* smallest NNN of 001..999 whose name is not present, it raises exactly when
\* all of 001..999 are present, and the name it returns is never present.
C11_SmallestFreeName ==
    rep.stage = "named" =>
        /\ rep.result = "RuntimeError" <=> FreeNumbers = {}
        /\ FreeNumbers # {} =>
              LET n == CHOOSE x \in FreeNumbers : \A y \in FreeNumbers : x <= y
              IN /\ rep.result = Join(NamingDir, AutoName(n, rep.ext))
                 /\ AbsPath(rep.result)
                       \notin ExistingIn(NamingDir, rep.ext, rep.taken, rep.other)

\* C11 witness: the directory of the example, 001..005 present and the name
\* 006 returned, with names of the other extension present as well.
C11_Witness ==
    /\ rep.stage = "named"
    /\ rep.taken = 1..5 /\ rep.ext = "html" /\ rep.other = {1, 2}
    /\ rep.result = "_gpdf_results/gpdf-2024-01-01-006.html"

----------------------------------------------------------------------------
(* Properties of the HTML index and of the composite's navigation, under   *)
(* Spec                                                                    *)

RowKey(i) == <<all_records[i].source_path, all_records[i].page_number>>

\* C12: the HTML index has one row per record, in the order of the records;
\* every row has the source link link_prefix + base name, and a row has the
\* summary link exactly when a merged PDF was asked for (so that main passes
\* a page map and a summary file name) and the record's key (source path,
\* page number) is in the page map; the link then names the summary file.
C12_OneRowPerRecord ==
    html_index.saved =>
        /\ Len(html_index.rows) = Len(all_records)
        /\ \A i \in 1..Len(all_records) :
              LET row == html_index.rows[i]
              IN /\ row.file_name = BaseName(all_records[i].source_path)
                 /\ row.page_number = all_records[i].page_number
                 /\ row.source_href = out.link_prefix \o BaseName(all_records[i].source_path)
                 /\ row.has_summary <=>
                       (out.merge_path # NONE /\ RowKey(i) \in DOMAIN summary_pages)
                 /\ row.has_summary =>
                       row.summary_href = out.summary_link_prefix \o BaseName(out.merge_path)

\* C12 witness: an index written next to a merged PDF in which one record
\* has the summary link and another, of a source the assembler failed to
\* reopen, has none.
C12_Witness ==
    /\ html_index.saved
    /\ out.merge_path # NONE
    /\ \E i, j \in 1..Len(html_index.rows) :
          html_index.rows[i].has_summary /\ ~html_index.rows[j].has_summary

\* the page of the composite at a 1-based position is the copy of the page
\* an entry names
IsCopyOf(position, entry) ==
    /\ position \in 1..Len(composite.pages)
    /\ composite.pages[position].kind = "copy"
    /\ composite.pages[position].source_path = entry.source_path
    /\ composite.pages[position].source_page = entry.source_page

\* C13: in a saved composite, for every entry the outline target (1-based)
\* is the page number the copy had before the contents page was inserted
\* plus 1, the internal jump of the contents line (0-based) is
\* merged_page_index plus 1, both designate the same page, that page is the
\* copy of (source path, source page) of the entry, and neither points at
\* the contents page.
C13_NavigationPointsAtCopy ==
    (MergeRan /\ composite.saved) =>
        /\ composite.pages[1].kind = "contents"
        /\ Len(composite.toc) = Len(composite.entries)
        /\ Len(composite.pages[1].lines) = Len(composite.entries)
        /\ \A k \in 1..Len(composite.entries) :
              LET entry == composite.entries[k]
                  outline == composite.toc[k].page
                  jump == composite.pages[1].lines[k].target_index
              IN /\ outline = (entry.merged_page_index + 1) + 1
                 /\ jump = entry.merged_page_index + 1
                 /\ outline = jump + 1
                 /\ outline # 1 /\ jump # 0
                 /\ IsCopyOf(outline, entry)
                 /\ IsCopyOf(jump + 1, entry)
                 /\ composite.toc[k].source_path = entry.source_path
                 /\ composite.toc[k].source_page = entry.source_page
                 /\ composite.pages[1].lines[k].source_path = entry.source_path
                 /\ composite.pages[1].lines[k].source_page = entry.source_page

\* C13 witness: a saved composite with pages copied from two sources, so
\* that the second source's entries are shifted past the first's pages.
C13_Witness ==
    /\ MergeRan /\ composite.saved
    /\ \E j, k \in 1..Len(composite.entries) :
          /\ j < k
          /\ composite.entries[j].source_path # composite.entries[k].source_path

\* the position at which a path was first supplied to the batch
FirstSupplied(path) ==
    CHOOSE i \in 1..Len(paths) : paths[i] = path /\ \A j \in 1..(i - 1) : paths[j] # path

\* C14: the pages of the composite are in file-then-page order: files in
\* the order in which they were supplied to the batch, within one file in
\* strictly ascending page number, no page twice; the k-th entry (from 0)
\* has merged_page_index k, and the entries, the outline, the contents
\* lines and the copied pages name the same pages in the same order.
C14_FileThenPageOrder ==
    MergeRan =>
        /\ \A i, j \in CopiedPositions :
              i < j =>
                 LET a == composite.pages[i]
                     b == composite.pages[j]
                 IN /\ a.source_path \in Range(paths) /\ b.source_path \in Range(paths)
                    /\ FirstSupplied(a.source_path) <= FirstSupplied(b.source_path)
                    /\ a.source_path = b.source_path => a.source_page < b.source_page
        /\ \A k \in 1..Len(composite.entries) :
              composite.entries[k].merged_page_index = k - 1
        /\ composite.saved =>
              /\ CopiedPositions = 2..Len(composite.pages)
              /\ Len(composite.entries) = Len(composite.pages) - 1
              /\ \A k \in 1..Len(composite.entries) :
                    LET entry == composite.entries[k]
                        key == <<entry.source_path, entry.source_page>>
                    IN /\ key = <<composite.pages[k + 1].source_path,
                                  composite.pages[k + 1].source_page>>
                       /\ key = <<composite.toc[k].source_path, composite.toc[k].source_page>>
                       /\ key = <<composite.pages[1].lines[k].source_path,
                                  composite.pages[1].lines[k].source_page>>

\* C14 witness: a saved composite with two pages of the file supplied first
\* followed by a page of the file supplied second.
C14_Witness ==
    /\ MergeRan /\ composite.saved
    /\ Len(composite.entries) >= 3
    /\ composite.entries[1].source_path = composite.entries[2].source_path
    /\ composite.entries[2].source_path # composite.entries[3].source_path

\* the run has announced the merged PDF
MergedAnnounced == \E i \in 1..Len(stdout) : stdout[i][1] = "Merged PDF written to"

\* C15 (as claimed): 'Merged PDF written to <path>' is announced only if the
\* composite was saved to <path> in this run, that is only if at least one
\* page was copied; a run in which the assembler copies no page writes no
\* composite and announces none.
C15_AnnouncedOnlyIfSaved ==
    /\ MergedAnnounced =>
          /\ composite.saved
          /\ out.merge_path \in written
          /\ <<"Merged PDF written to", out.merge_path>> \in Range(stdout)
          /\ CopiedPositions # {}
    /\ (MergeRan /\ CopiedPositions = {}) => ~composite.saved /\ ~MergedAnnounced

====
